---- MODULE Spec2Model ----
(***************************************************************************)
(* A model of the RLP codec of secjs-rlp (src/encode.js): encode, decode   *)
(* (with its recursive helper _decode, run as an explicit call stack so    *)
(* that its while loops are visible step by step) and getLength.           *)
(*                                                                         *)
(* A Buffer is a sequence of bytes 0..255.  A hex string is a sequence of  *)
(* hex digits 0..15.  An RLP item is a tagged record: Bytes(s) for a       *)
(* Buffer, List(s) for a JavaScript Array of items.                        *)
(***************************************************************************)
EXTENDS Integers, Sequences, FiniteSets, TLC

\* ------------------------------------------------------------------ bounds
\* longest raw buffer that is enumerated byte by byte
MaxLen == 3
\* longest byte string of an enumerated item
MaxStr == 1
\* most children of an enumerated list item
MaxWidth == 2
\* most iterations of one while loop of _decode that are followed
MaxIter == 4

\* --------------------------------------------------------- JavaScript values
\* the result of parseInt on a string with no digits; every comparison with
\* it is false and Buffer.slice reads it as offset 0
NaN == -1

Bytes(s) == [t |-> "B", v |-> s]
List(s) == [t |-> "L", v |-> s]
Num(n) == [t |-> "N", v |-> n]

Value(n) == [thrown |-> FALSE, msg |-> "", v |-> n]
Thrown(m) == [thrown |-> TRUE, msg |-> m, v |-> NaN]

Min(a, b) == IF a < b THEN a ELSE b

\* Buffer.prototype.slice(start, end): offsets are 0-based, NaN is read as 0,
\* both are clamped to the length, and an end before the start gives an
\* empty Buffer
adjustOffset(o, len) == IF o = NaN THEN 0 ELSE Min(o, len)

slice(buf, start, end) ==
    LET s == adjustOffset(start, Len(buf))
        e == adjustOffset(end, Len(buf))
    IN  IF e <= s THEN <<>> ELSE SubSeq(buf, s + 1, e)

sliceFrom(buf, start) == slice(buf, start, Len(buf))

\* a + b in JavaScript when either side may be NaN
jsAdd(a, b) == IF a = NaN \/ b = NaN THEN NaN ELSE a + b

\* a < b and a > b in JavaScript: false when either side is NaN
jsLess(a, b) == a # NaN /\ b # NaN /\ a < b
jsGreater(a, b) == a # NaN /\ b # NaN /\ a > b

\* Number.prototype.toString(16): the hex digits, most significant first
RECURSIVE toString16(_)
toString16(i) == IF i < 16 THEN <<i>> ELSE toString16(i \div 16) \o <<i % 16>>

\* Buffer.prototype.toString('hex'): two digits for every byte
toStringHex(buf) ==
    [k \in 1..(2 * Len(buf)) |->
        IF k % 2 = 1 THEN buf[(k + 1) \div 2] \div 16 ELSE buf[k \div 2] % 16]

\* Buffer.from(str, 'hex'): one byte for every full pair of digits
BufferFromHex(hex) ==
    [k \in 1..(Len(hex) \div 2) |-> hex[2 * k - 1] * 16 + hex[2 * k]]

\* parseInt(v, 16) on a string of hex digits: NaN for the empty string
RECURSIVE parseInt16(_)
parseInt16(v) ==
    IF v = <<>> THEN NaN
    ELSE IF Len(v) = 1 THEN v[1]
    ELSE parseInt16(SubSeq(v, 1, Len(v) - 1)) * 16 + v[Len(v)]

RECURSIVE concat(_)
concat(bufs) == IF bufs = <<>> THEN <<>> ELSE Head(bufs) \o concat(Tail(bufs))

\* ------------------------------------------------------------------ encode
intToHex(i) ==
    LET hex == toString16(i)
    IN  IF Len(hex) % 2 = 1 THEN <<0>> \o hex ELSE hex

safeParseIntNoCheck(v) == Value(parseInt16(v))

safeParseInt(v) ==
    IF SubSeq(v, 1, Min(2, Len(v))) = <<0, 0>>
    THEN Thrown("invalid RLP: extra zeros")
    ELSE Value(parseInt16(v))

encodeLengthOffByOne(len, offset) ==
    IF len <= 56 THEN <<len + offset>>
    ELSE LET hexLength == intToHex(len)
             lLength == Len(hexLength) \div 2
             firstByte == intToHex(offset + 55 + lLength)
         IN  BufferFromHex(firstByte \o hexLength)

encodeLength(len, offset) ==
    IF len < 56 THEN <<len + offset>>
    ELSE LET hexLength == intToHex(len)
             lLength == Len(hexLength) \div 2
             firstByte == intToHex(offset + 55 + lLength)
         IN  BufferFromHex(firstByte \o hexLength)

\* The items are Buffers and Arrays, so toBuffer (line 240) hands the Buffer
\* back as it is.
RECURSIVE encode(_)
encode(x) ==
    IF x.t = "L"
    THEN LET buf == concat([i \in 1..Len(x.v) |-> encode(x.v[i])])
         IN  encodeLength(Len(buf), 192) \o buf
    ELSE IF Len(x.v) = 1 /\ x.v[1] < 128
         THEN x.v
         ELSE encodeLength(Len(x.v), 128) \o x.v

\* ----------------------------------------------------------------- _decode
\* What one call of _decode does before it either returns, throws or enters
\* the while loop of a list branch.
Ret(data, remainder) ==
    [k |-> "ret", data |-> data, remainder |-> remainder, msg |-> "",
     inner |-> <<>>, total |-> 0]
Throw(m) ==
    [k |-> "throw", data |-> Bytes(<<>>), remainder |-> <<>>, msg |-> m,
     inner |-> <<>>, total |-> 0]
EnterLoop(inner, total) ==
    [k |-> "loop", data |-> Bytes(<<>>), remainder |-> <<>>, msg |-> "",
     inner |-> inner, total |-> total]

singleByte(input) == Ret(Bytes(slice(input, 0, 1)), sliceFrom(input, 1))

shortStringLooseCheck(input) ==
    LET length == input[1] - 127
        data == IF input[1] = 128 THEN <<>> ELSE slice(input, 1, length)
    IN  IF length = 2 /\ Len(data) > 0 /\ data[1] < 127
        THEN Throw("invalid rlp encoding: byte must be less 0x80")
        ELSE Ret(Bytes(data), sliceFrom(input, length))

\* data[0] of an empty Buffer is undefined, and undefined < 0x80 is false
shortString(input) ==
    LET length == input[1] - 127
        data == IF input[1] = 128 THEN <<>> ELSE slice(input, 1, length)
    IN  IF length = 2 /\ Len(data) > 0 /\ data[1] < 128
        THEN Throw("invalid rlp encoding: byte must be less 0x80")
        ELSE Ret(Bytes(data), sliceFrom(input, length))

longString(input) ==
    LET llength == input[1] - 182
        parsed == safeParseInt(toStringHex(slice(input, 1, llength)))
        length == parsed.v
        data == slice(input, llength, jsAdd(length, llength))
    IN  IF parsed.thrown THEN Throw(parsed.msg)
        ELSE IF jsLess(Len(data), length) THEN Throw("invalid RLP")
        ELSE Ret(Bytes(data), sliceFrom(input, jsAdd(length, llength)))

shortList(input) ==
    LET length == input[1] - 191
    IN  EnterLoop(slice(input, 1, length), length)

longList(input) ==
    LET llength == input[1] - 246
        parsed == safeParseInt(toStringHex(slice(input, 1, llength)))
        length == parsed.v
        totalLength == jsAdd(llength, length)
        innerRemainder == slice(input, llength, totalLength)
    IN  IF parsed.thrown THEN Throw(parsed.msg)
        ELSE IF jsGreater(totalLength, Len(input))
        THEN Throw("invalid rlp: total length is larger than the data")
        ELSE IF Len(innerRemainder) = 0
        THEN Throw("invalid rlp, List has a invalid length")
        ELSE EnterLoop(innerRemainder, totalLength)

\* the branch of _decode taken for the first byte of a non-empty input
decodeBranch(input) ==
    LET firstByte == input[1]
    IN  IF firstByte <= 127 THEN singleByte(input)
        ELSE IF firstByte <= 183 THEN shortString(input)
        ELSE IF firstByte <= 191 THEN longString(input)
        ELSE IF firstByte <= 247 THEN shortList(input)
        ELSE longList(input)

\* --------------------------------------------------------------- getLength
Ok(x) == [ok |-> TRUE, data |-> x, msg |-> ""]
Err(m) == [ok |-> FALSE, data |-> Bytes(<<>>), msg |-> m]

getLength(input) ==
    IF Len(input) = 0 THEN Ok(Bytes(<<>>))
    ELSE LET firstByte == input[1]
         IN  IF firstByte <= 127 THEN Ok(Num(Len(input)))
             ELSE IF firstByte <= 183 THEN Ok(Num(firstByte - 127))
             ELSE IF firstByte <= 191 THEN Ok(Num(firstByte - 182))
             ELSE IF firstByte <= 247 THEN Ok(Num(firstByte - 191))
             ELSE LET llength == firstByte - 246
                      parsed == safeParseInt(
                                    toStringHex(slice(input, 1, llength)))
                  IN  IF parsed.thrown THEN Err(parsed.msg)
                      ELSE Ok(Num(jsAdd(llength, parsed.v)))

\* ------------------------------------------------------------------ inputs
RECURSIVE SeqsUpTo(_, _)
SeqsUpTo(S, n) ==
    IF n = 0 THEN {<<>>}
    ELSE LET shorter == SeqsUpTo(S, n - 1)
         IN  shorter \cup {Append(s, b) : s \in {q \in shorter : Len(q) = n - 1}, b \in S}

Fill(n, b) == [i \in 1..n |-> b]

\* bytes of the enumerated raw buffers: 0x00 0x01 0x7f 0x80 0x81 0xb8 0xc0
\* 0xc1 0xc2 0xf8
RawBytes == {0, 1, 127, 128, 129, 184, 192, 193, 194, 248}

\* hand-made buffers in the long forms, well-formed, truncated or with a
\* leading zero in the length field
Crafted ==
    { <<184, 56>> \o Fill(56, 128),
      <<184, 56>> \o Fill(55, 128),
      <<184, 57>> \o Fill(56, 128),
      <<185, 0, 56>> \o Fill(56, 128),
      <<185, 1, 0>> \o Fill(256, 128),
      <<185, 1>>,
      <<248, 57, 184, 55>> \o Fill(55, 128),
      <<248, 58, 184, 56>> \o Fill(56, 128),
      <<249, 0, 58, 184, 56>> \o Fill(56, 128),
      <<248, 59, 184, 56>> \o Fill(56, 128),
      <<248, 59, 185, 0, 56>> \o Fill(56, 128),
      <<194, 131, 97, 0>>,
      <<195, 193, 131, 97, 0>> }

RawBuffers == SeqsUpTo(RawBytes, MaxLen) \cup Crafted

\* bytes of the enumerated items: 0x00 0x7f 0x80 0xff
ItemBytes == {0, 127, 128, 255}

\* lengths of the long byte strings among the items
LongLens == {55, 56, 255, 256}

Strings ==
    {Bytes(s) : s \in SeqsUpTo(ItemBytes, MaxStr)}
        \cup {Bytes(Fill(n, 128)) : n \in LongLens}

\* the items that are put into lists
ListElems ==
    {Bytes(<<>>), Bytes(<<0>>), Bytes(<<128>>)}
        \cup {Bytes(Fill(n, 128)) : n \in {55, 56, 256}}

FlatLists == {List(s) : s \in SeqsUpTo(ListElems, MaxWidth)}

NestedLists ==
    {List(<<l>>) : l \in FlatLists}
        \cup {List(<<List(<<>>), s, List(<<s>>)>>) : s \in ListElems}

Items == Strings \cup FlatLists \cup NestedLists

\* the bytes put after an encoding: none, 0x00, 0x80 or 0xc0
Tails == {<<>>, <<0>>, <<128>>, <<192>>}

\* ------------------------------------------------------------------- state
VARIABLES
    src,        \* "item": the run encodes item first; "raw": input is given
    item,       \* the argument of encode
    encoded,    \* the Buffer encode returned
    op,         \* the exported function that was called on input
    input,      \* the argument of decode or getLength
    pc,         \* where the call is
    arg,        \* the argument of the _decode call about to run
    stack,      \* the _decode calls that are inside their while loop
    d,          \* what the _decode call that just ended returned
    result,     \* what the exported function returned or threw
    calls,      \* every argument _decode was called with, in order
    returned    \* every _decode call that returned, in order

vars == <<src, item, encoded, op, input, pc, arg, stack, d, result, calls,
          returned>>

NoItem == Bytes(<<>>)
NoD == [data |-> Bytes(<<>>), remainder |-> <<>>]
NoResult == Ok(Bytes(<<>>))

Init ==
    /\ \/ src = "item" /\ item \in Items /\ input = <<>>
       \/ src = "raw" /\ item = NoItem /\ input \in RawBuffers
    /\ encoded = <<>>
    /\ op = "none"
    /\ pc = "init"
    /\ arg = <<>>
    /\ stack = <<>>
    /\ d = NoD
    /\ result = NoResult
    /\ calls = <<>>
    /\ returned = <<>>

\* exports.encode(item)
Encode ==
    /\ pc = "init"
    /\ src = "item"
    /\ encoded' = encode(item)
    /\ pc' = "encoded"
    /\ UNCHANGED <<src, item, op, input, arg, stack, d, result, calls,
                   returned>>

\* exports.decode(buf) up to its call of _decode: an empty input is answered
\* with an empty Buffer at once
decodeEntry(buf) ==
    /\ op' = "decode"
    /\ input' = buf
    /\ IF Len(buf) = 0
       THEN /\ result' = Ok(Bytes(<<>>))
            /\ pc' = "done"
            /\ arg' = arg
       ELSE /\ result' = result
            /\ pc' = "call"
            /\ arg' = buf
    /\ UNCHANGED <<src, item, encoded, stack, d, calls, returned>>

\* decode is called on the encoding, with or without bytes after it
DecodeEncoded ==
    /\ pc = "encoded"
    /\ \E tail \in Tails : decodeEntry(encoded \o tail)

\* decode is called on a raw buffer
DecodeRaw ==
    /\ pc = "init"
    /\ src = "raw"
    /\ decodeEntry(input)

\* exports.getLength(buf)
getLengthCall(buf) ==
    /\ op' = "getLength"
    /\ input' = buf
    /\ result' = getLength(buf)
    /\ pc' = IF result'.ok THEN "done" ELSE "error"
    /\ UNCHANGED <<src, item, encoded, arg, stack, d, calls, returned>>

GetLengthEncoded ==
    /\ pc = "encoded"
    /\ \E tail \in Tails : getLengthCall(encoded \o tail)

GetLengthRaw ==
    /\ pc = "init"
    /\ src = "raw"
    /\ getLengthCall(input)

\* _decode(arg) from its first line to its return, its throw or the first
\* test of its while loop
Call ==
    /\ pc = "call"
    /\ calls' = Append(calls, arg)
    /\ LET b == decodeBranch(arg)
       IN  CASE b.k = "throw" ->
                    /\ pc' = "error"
                    /\ result' = Err(b.msg)
                    /\ UNCHANGED <<stack, d, returned>>
              [] b.k = "ret" ->
                    /\ pc' = "ret"
                    /\ d' = [data |-> b.data, remainder |-> b.remainder]
                    /\ returned' = Append(returned,
                           [input |-> arg, data |-> b.data,
                            remainder |-> b.remainder])
                    /\ UNCHANGED <<stack, result>>
              [] b.k = "loop" ->
                    /\ pc' = "loop"
                    /\ stack' = Append(stack,
                           [input |-> arg, innerRemainder |-> b.inner,
                            decoded |-> <<>>, total |-> b.total])
                    /\ UNCHANGED <<d, result, returned>>
    /\ UNCHANGED <<src, item, encoded, op, input, arg>>

\* while (innerRemainder.length): the test holds and _decode is called on
\* innerRemainder
LoopBody ==
    /\ pc = "loop"
    /\ LET f == stack[Len(stack)]
       IN  /\ Len(f.innerRemainder) # 0
           /\ Len(f.decoded) < MaxIter
           /\ arg' = f.innerRemainder
    /\ pc' = "call"
    /\ UNCHANGED <<src, item, encoded, op, input, stack, d, result, calls,
                   returned>>

\* the test fails: the list branch returns decoded and the input from the
\* end of the list on
LoopExit ==
    /\ pc = "loop"
    /\ LET f == stack[Len(stack)]
           r == [data |-> List(f.decoded),
                 remainder |-> sliceFrom(f.input, f.total)]
       IN  /\ Len(f.innerRemainder) = 0
           /\ d' = r
           /\ returned' = Append(returned,
                  [input |-> f.input, data |-> r.data,
                   remainder |-> r.remainder])
    /\ stack' = SubSeq(stack, 1, Len(stack) - 1)
    /\ pc' = "ret"
    /\ UNCHANGED <<src, item, encoded, op, input, arg, result, calls>>

\* a child's _decode returned into the loop of its list: decoded.push(d.data),
\* innerRemainder = d.remainder
LoopNext ==
    /\ pc = "ret"
    /\ Len(stack) > 0
    /\ LET n == Len(stack)
           f == stack[n]
       IN  stack' = [stack EXCEPT ![n] =
                        [f EXCEPT !.decoded = Append(f.decoded, d.data),
                                  !.innerRemainder = d.remainder]]
    /\ pc' = "loop"
    /\ UNCHANGED <<src, item, encoded, op, input, arg, d, result, calls,
                   returned>>

\* the test decode makes on what the outermost _decode left over
remainderCheck(remainder) == Len(remainder) = 0

\* the outermost _decode returned into decode
DecodeFinish ==
    /\ pc = "ret"
    /\ Len(stack) = 0
    /\ IF remainderCheck(d.remainder)
       THEN result' = Err("invalid remainder") /\ pc' = "error"
       ELSE result' = Ok(d.data) /\ pc' = "done"
    /\ UNCHANGED <<src, item, encoded, op, input, arg, stack, d, calls,
                   returned>>

Next ==
    \/ Encode
    \/ DecodeEncoded
    \/ DecodeRaw
    \/ GetLengthEncoded
    \/ GetLengthRaw
    \/ Call
    \/ LoopBody
    \/ LoopExit
    \/ LoopNext
    \/ DecodeFinish

Spec == Init /\ [][Next]_vars

\* ------------------------------------------------------- reference encoding
\* The RLP encoding as the specification words it, with the length written
\* as a number in base 256.
RECURSIVE BigEndian(_)
BigEndian(n) == IF n < 256 THEN <<n>> ELSE BigEndian(n \div 256) \o <<n % 256>>

RECURSIVE BigEndianValue(_)
BigEndianValue(bs) ==
    IF bs = <<>> THEN 0
    ELSE BigEndianValue(SubSeq(bs, 1, Len(bs) - 1)) * 256 + bs[Len(bs)]

RefPrefix(n, base) ==
    IF n < 56 THEN <<base + n>>
    ELSE <<base + 55 + Len(BigEndian(n))>> \o BigEndian(n)

RECURSIVE RefEncode(_)
RefEncode(x) ==
    IF x.t = "B"
    THEN IF Len(x.v) = 1 /\ x.v[1] < 128 THEN x.v
         ELSE RefPrefix(Len(x.v), 128) \o x.v
    ELSE LET RECURSIVE Payload(_)
             Payload(cs) ==
                 IF cs = <<>> THEN <<>>
                 ELSE RefEncode(Head(cs)) \o Payload(Tail(cs))
         IN  RefPrefix(Len(Payload(x.v)), 192) \o Payload(x.v)

\* the length of the length field an item's first byte announces (0 for the
\* short forms and the single byte)
LengthOfLength(buf) ==
    IF buf[1] \in 184..191 THEN buf[1] - 183
    ELSE IF buf[1] \in 248..255 THEN buf[1] - 247
    ELSE 0

\* the payload length an item's prefix declares; the prefix is complete
DeclaredLength(buf) ==
    IF buf[1] <= 127 THEN 0
    ELSE IF buf[1] <= 183 THEN buf[1] - 128
    ELSE IF buf[1] \in 192..247 THEN buf[1] - 192
    ELSE BigEndianValue(SubSeq(buf, 2, 1 + LengthOfLength(buf)))

\* the prefix is cut off, or declares more payload than the bytes after it
Truncated(buf) ==
    /\ buf[1] > 127
    /\ \/ Len(buf) < 1 + LengthOfLength(buf)
       \/ DeclaredLength(buf) > Len(buf) - 1 - LengthOfLength(buf)

RECURSIVE SumEncodedLengths(_)
SumEncodedLengths(cs) ==
    IF cs = <<>> THEN 0
    ELSE Len(RefEncode(Head(cs))) + SumEncodedLengths(Tail(cs))

IsList(buf) == buf[1] >= 192
IsLongForm(buf) == LengthOfLength(buf) > 0

finished == pc \in {"done", "error"}

\* ------------------------------------------------------------------ claims

\* C1: decode applied to encode(x) returns, and returns x.
C1_RoundTrip ==
    (op = "decode" /\ src = "item" /\ input = encoded /\ finished)
        => result = Ok(item)

\* C2: encode returns the reference RLP encoding of every item: a single byte
\* below 0x80 as itself, otherwise the payload behind the prefix 0x80+n or
\* 0xc0+n for n < 56 and behind the marker and the minimal big-endian length
\* for n >= 56.
C2_EncodeIsReference ==
    (src = "item" /\ pc # "init") => encoded = RefEncode(item)

C2_Witness ==
    /\ pc = "encoded"
    /\ item = Bytes(Fill(56, 128))
    /\ SubSeq(encoded, 1, 2) = <<184, 56>>
    /\ Len(encoded) = 58

\* C3: the only buffer decode accepts with result x is encode(x).
C3_CanonicalUnique ==
    (op = "decode" /\ pc = "done" /\ Len(input) > 0)
        => input = encode(result.data)

\* C4: decode fails when bytes are left over after the first top-level item,
\* so decode of encode(x) followed by one more byte fails.
C4_TrailingBytesRejected ==
    (op = "decode" /\ pc = "done" /\ Len(input) > 0)
        => /\ Len(d.remainder) = 0
           /\ src = "item" => input = encoded

\* C5: decode never returns an item when one of the items it read, at the top
\* level or inside a list, declared more payload than the bytes behind its
\* prefix.
C5_TruncatedRejected ==
    (op = "decode" /\ pc = "done")
        => \A i \in 1..Len(returned) : ~Truncated(returned[i].input)

\* C6: an item written as the short string [0x81, b] makes decode fail when
\* b < 0x80, wherever the item stands, and is not refused by that test when
\* b >= 0x80.
NonCanonicalMsg == "invalid rlp encoding: byte must be less 0x80"

C6_NonCanonicalSingleByte ==
    \A i \in 1..Len(calls) :
        LET c == calls[i]
        IN  (Len(c) >= 2 /\ c[1] = 129)
                => IF c[2] < 128
                   THEN /\ i = Len(calls)
                        /\ pc = "error"
                        /\ result = Err(NonCanonicalMsg)
                   ELSE \E j \in 1..Len(returned) :
                            /\ returned[j].input = c
                            /\ returned[j].data = Bytes(<<c[2]>>)

C6_Witness ==
    /\ pc = "error"
    /\ result = Err(NonCanonicalMsg)
    /\ Len(stack) > 0
    /\ calls[Len(calls)][2] = 127

\* C7: a long string or long list whose length field begins with the byte
\* 0x00 makes decode fail, whatever follows.
ExtraZerosMsg == "invalid RLP: extra zeros"

C7_RedundantLengthBytes ==
    \A i \in 1..Len(calls) :
        LET c == calls[i]
        IN  (IsLongForm(c) /\ Len(c) >= 2 /\ c[2] = 0)
                => /\ i = Len(calls)
                   /\ pc = "error"
                   /\ result = Err(ExtraZerosMsg)

C7_Witness ==
    /\ pc = "error"
    /\ result = Err(ExtraZerosMsg)
    /\ Len(stack) > 0
    /\ calls[Len(calls)][1] = 185
    /\ Len(calls[Len(calls)]) > 56

\* C8: in a list that decode accepts, the encoded lengths of the decoded
\* children add up to the payload length the list's prefix declares.
C8_ListFraming ==
    (op = "decode" /\ pc = "done")
        => \A i \in 1..Len(returned) :
               LET r == returned[i]
               IN  IsList(r.input)
                       => SumEncodedLengths(r.data.v) = DeclaredLength(r.input)

\* C9: getLength of a buffer that begins with encode(x) is the length of
\* encode(x).
C9_GetLengthIsTotal ==
    (op = "getLength" /\ src = "item") => result = Ok(Num(Len(encoded)))

\* C10: every _decode call returns a remainder strictly shorter than its
\* input, so the while loops come to an end.
C10_DecodeProgress ==
    \A i \in 1..Len(returned) :
        Len(returned[i].remainder) < Len(returned[i].input)

====
